---- MODULE Spec2Model ----
\* Model of workflow/scripts/subsample_gtdb.py: hierarchical sub-sampling of a
\* GTDB metadata table according to a sampling scheme.  The model starts at
\* line 75 of the script, with the filtered table in `df` and the parsed yaml
\* document in `sampling_scheme`.
\*
\* Abstractions: a data frame is a set of rows plus its column set (row order
\* inside a frame is not kept; frames are put in order only when they are
\* concatenated for the output); sampling probabilities are exact fractions
\* <<numerator, denominator>> instead of floats; the random draw of
\* DataFrame.sample is a nondeterministic choice among the draws it can return.
EXTENDS Integers, Sequences, FiniteSets, TLC

\* ---------------------------------------------------------------- bounds
MaxRules == 2   \* rules in the yaml sampling scheme
MaxQuota == 2   \* largest "taxa" value of a rule
MaxRows  == 4   \* rows of the filtered metadata table

\* ------------------------------------------------------- program constants
taxa_levels == <<"domain", "phylum", "class", "order", "family", "genus", "species">>

\* list.index(level), 0-based as in Python
LevelIndex(level) == (CHOOSE n \in 1..Len(taxa_levels) : taxa_levels[n] = level) - 1
\* taxa_levels[index], 0-based as in Python
LevelAt(index) == taxa_levels[index + 1]

BaseColumns == {"accession"} \cup {taxa_levels[n] : n \in 1..Len(taxa_levels)}

\* ------------------------------------------------------------ input data
MkRow(acc, d, p, c, o, f, g, s) ==
    [accession |-> acc, domain |-> d, phylum |-> p, class |-> c, order |-> o,
     family |-> f, genus |-> g, species |-> s]

\* The rows the modelled tables are made of, in file order.  Row a1 carries a
\* species whose name is also the name of the genus of a2, a4 and a5.
Catalogue ==
    << MkRow("a1", "Bacteria", "p1", "c1", "o1", "f1", "g2", "g1"),
       MkRow("a2", "Bacteria", "p1", "c1", "o1", "f1", "g1", "s1"),
       MkRow("a3", "Archaea",  "p2", "c2", "o2", "f2", "g3", "s3"),
       MkRow("a4", "Bacteria", "p1", "c1", "o1", "f1", "g1", "s1"),
       MkRow("a5", "Bacteria", "p1", "c1", "o1", "f1", "g1", "s2"),
       MkRow("a6", "Archaea",  "p2", "c2", "o2", "f2", "g3", "s3") >>

\* The filtered tables: the first n rows of the catalogue, n up to MaxRows
Tables ==
    { [columns |-> BaseColumns,
       rows |-> {Catalogue[i] : i \in {j \in DOMAIN Catalogue : j <= n}}] :
        n \in 0..MaxRows }

\* The names the modelled schemes use: each is absent from some table
SchemeKeys == {"all", "Bacteria", "g1", "s1"}
SchemeLevels == {"domain", "genus", "species"}

RuleOptions ==
    [key : SchemeKeys, sampling_level : SchemeLevels, taxa : 0..MaxQuota]

\* A yaml mapping, in document order: no key occurs twice.
Schemes ==
    { s \in UNION {[1..n -> RuleOptions] : n \in 0..MaxRules} :
        \A a, b \in DOMAIN s : a # b => s[a].key # s[b].key }

\* ------------------------------------------------------ dict operations
HasKey(scheme, key) == \E n \in DOMAIN scheme : scheme[n].key = key

\* del scheme[key]
DictDel(scheme, key) == SelectSeq(scheme, LAMBDA e : e.key # key)

\* scheme[key] = params: an existing key keeps its place and gets the new
\* value, a new key goes to the end.
DictSet(scheme, key, params) ==
    LET entry == [key |-> key, sampling_level |-> params.sampling_level,
                  taxa |-> params.taxa]
    IN IF HasKey(scheme, key)
       THEN [n \in DOMAIN scheme |-> IF scheme[n].key = key THEN entry ELSE scheme[n]]
       ELSE Append(scheme, entry)

DictGet(scheme, key) == scheme[CHOOSE n \in DOMAIN scheme : scheme[n].key = key]

\* the wildcard entry is left in the scheme
ExpandAllKeepsWildcard(scheme) ==
    IF HasKey(scheme, "all")
    THEN LET sampling_parameters == DictGet(scheme, "all")
         IN DictSet(DictSet(scheme, "Bacteria", sampling_parameters),
                    "Archaea", sampling_parameters)
    ELSE scheme

\* lines 79-83
ExpandAll(scheme) ==
    IF HasKey(scheme, "all")
    THEN LET sampling_parameters == DictGet(scheme, "all")
         IN DictSet(DictSet(DictDel(scheme, "all"), "Bacteria", sampling_parameters),
                    "Archaea", sampling_parameters)
    ELSE scheme

\* ------------------------------------------------------ taxon resolution
\* df[level].to_list(), as the set of its values
Column(d, level) == {r[level] : r \in d.rows}

RECURSIVE check_taxa_scan(_, _, _)
check_taxa_scan(taxa, levels, d) ==
    IF levels = <<>> THEN FALSE
    ELSE IF taxa \in Column(d, Head(levels)) THEN TRUE
    ELSE check_taxa_scan(taxa, Tail(levels), d)

\* only the first level is looked at
check_taxa_name_first_level(taxa, levels, d) ==
    levels # <<>> /\ taxa \in Column(d, Head(levels))

check_taxa_name(taxa, levels, d) == check_taxa_scan(taxa, levels, d)

None == -1

\* enumerate(taxa_levels) from position n (0-based); None when the loop ends
RECURSIVE level_index_scan(_, _, _, _)
level_index_scan(taxa, levels, d, n) ==
    IF n >= Len(levels) THEN None
    ELSE IF taxa \in Column(d, levels[n + 1]) THEN n
    ELSE level_index_scan(taxa, levels, d, n + 1)

\* the levels scanned from the last one to the first
RECURSIVE level_index_scan_reversed(_, _, _, _)
level_index_scan_reversed(taxa, levels, d, n) ==
    IF n < 0 THEN None
    ELSE IF taxa \in Column(d, levels[n + 1]) THEN n
    ELSE level_index_scan_reversed(taxa, levels, d, n - 1)

get_taxa_level_index_reversed(taxa, levels, d) ==
    level_index_scan_reversed(taxa, levels, d, Len(levels) - 1)

get_taxa_level_index(taxa, levels, d) == level_index_scan(taxa, levels, d, 0)

\* ------------------------------------------------------- sampling order
\* a rule that samples at the rank of its own taxon is refused
RankOrderOkStrict(sampling_level_index, taxa_level_index) ==
    sampling_level_index > taxa_level_index

\* line 93: the rank check of a rule
RankOrderOk(sampling_level_index, taxa_level_index) ==
    sampling_level_index >= taxa_level_index

OrderKeys(order) == {order[n].key : n \in DOMAIN order}

\* lines 95-98: sampling_order[taxa_level_index].append(rule), or a new key
OrderAppend(order, taxa_level_index, rule) ==
    IF taxa_level_index \in OrderKeys(order)
    THEN [n \in DOMAIN order |->
            IF order[n].key = taxa_level_index
            THEN [key |-> order[n].key, rules |-> Append(order[n].rules, rule)]
            ELSE order[n]]
    ELSE Append(order, [key |-> taxa_level_index, rules |-> <<rule>>])

SetMax(S) == CHOOSE x \in S : \A y \in S : y <= x

\* sorted(keys, reverse=True)
RECURSIVE SortedReverse(_)
SortedReverse(keys) ==
    IF keys = {} THEN <<>>
    ELSE <<SetMax(keys)>> \o SortedReverse(keys \ {SetMax(keys)})

OrderGet(order, key) == order[CHOOSE n \in DOMAIN order : order[n].key = key]

SetMin(S) == CHOOSE x \in S : \A y \in S : x <= y

RECURSIVE SortedAscending(_)
SortedAscending(keys) ==
    IF keys = {} THEN <<>>
    ELSE <<SetMin(keys)>> \o SortedAscending(keys \ {SetMin(keys)})

\* the keys sorted without reverse=True
ReorderedAscending(order) ==
    LET keys == SortedAscending(OrderKeys(order))
    IN [n \in 1..Len(keys) |-> OrderGet(order, keys[n])]

\* lines 106-108: the dict rebuilt in the order of the sorted keys
Reordered(order) ==
    LET keys == SortedReverse(OrderKeys(order))
    IN [n \in 1..Len(keys) |-> OrderGet(order, keys[n])]

\* ----------------------------------------------------------- data frames
\* The order Python gives the strings of the catalogue (groupby sorts its keys)
LexOrder ==
    <<"Archaea", "Bacteria", "a1", "a2", "a3", "a4", "a5", "a6", "c1", "c2", "f1", "f2",
      "g1", "g2", "g3", "o1", "o2", "p1", "p2", "s1", "s2", "s3">>

SortedValues(S) == SelectSeq(LexOrder, LAMBDA v : v \in S)

Accessions(d) == {r.accession : r \in d.rows}

\* df[df[level] == value]
WhereEquals(d, level, value) ==
    [columns |-> d.columns, rows |-> {r \in d.rows : r[level] = value}]

\* the first frame of used_data is skipped
ExcludeEntriesSkipFirst(used) ==
    UNION {Accessions(used[n]) : n \in DOMAIN used \ {1}}

\* lines 123-125: the accessions of every frame of used_data
ExcludeEntries(used) == UNION {Accessions(used[n]) : n \in DOMAIN used}

\* df[~df["accession"].isin(entries)]
WhereNotIn(d, entries) ==
    [columns |-> d.columns, rows |-> {r \in d.rows : r.accession \notin entries}]

\* df.groupby(level): the groups in the order of their sorted keys
GroupBy(d, level) ==
    LET keys == SortedValues(Column(d, level))
    IN [n \in 1..Len(keys) |-> WhereEquals(d, level, keys[n])]

\* exact fractions <<numerator, denominator>>
FracOfInt(n) == <<n, 1>>
FracDivInt(f, n) == <<f[1], f[2] * n>>

\* taxa_level_df["sampling_prob"] = prob
WithColumn(d, column, value) ==
    [columns |-> d.columns \cup {column},
     rows |-> {[c \in DOMAIN r \cup {column} |-> IF c = column THEN value ELSE r[c]]
                 : r \in d.rows}]

\* the unit's probability is not divided among its records
ProbBaseLevelTaxaUndivided(prob_units, n_base_level_taxa) == prob_units

\* line 140
ProbBaseLevelTaxa(prob_units, n_base_level_taxa) ==
    FracDivInt(prob_units, n_base_level_taxa)

\* lines 134-143 for n_units > 0: the pool with its sampling_prob column
AssignWeights(sampling_df, base_level) ==
    LET n_units == Cardinality(Column(sampling_df, base_level))
        prob_units == FracDivInt(FracOfInt(1), n_units)
        dfs == GroupBy(sampling_df, base_level)
        weighted(g) == WithColumn(g, "sampling_prob",
                                  ProbBaseLevelTaxa(prob_units, Cardinality(g.rows)))
    IN [columns |-> UNION {weighted(dfs[n]).columns : n \in DOMAIN dfs},
        rows |-> UNION {weighted(dfs[n]).rows : n \in DOMAIN dfs}]

\* a draw with replacement: n draws give between 1 and n distinct rows
DataFrameSampleWithReplacement(d, n, weights) ==
    { [columns |-> d.columns, rows |-> S] :
        S \in {T \in SUBSET d.rows :
                 Cardinality(T) <= n /\ (n > 0 => Cardinality(T) >= 1)} }

\* DataFrame.sample(n, weights): the frames a draw without replacement can
\* return; a row of weight zero is never drawn.
DataFrameSample(d, n, weights) ==
    LET drawable == IF weights = "sampling_prob"
                    THEN {r \in d.rows : r["sampling_prob"][1] > 0}
                    ELSE d.rows
    IN { [columns |-> d.columns, rows |-> S] :
           S \in {T \in SUBSET drawable : Cardinality(T) = n} }

\* lines 150-158: what one group can add to sampled_dfs
GroupSelections(taxa_level_df, n_taxa) ==
    IF Cardinality(taxa_level_df.rows) > n_taxa
    THEN IF "sampling_prob" \in taxa_level_df.columns
         THEN DataFrameSample(taxa_level_df, n_taxa, "sampling_prob")
         ELSE DataFrameSample(taxa_level_df, n_taxa, "uniform")
    ELSE {taxa_level_df}

\* lines 146-158 over all groups: every sequence of per-group selections
RECURSIVE AllDraws(_, _)
AllDraws(groups, n_taxa) ==
    IF groups = <<>> THEN {<<>>}
    ELSE { <<[group |-> Head(groups), sampled |-> sel]>> \o rest :
             sel \in GroupSelections(Head(groups), n_taxa),
             rest \in AllDraws(Tail(groups), n_taxa) }

\* the rows of a frame in table order
RowSeq(d) ==
    LET accs == SortedValues(Accessions(d))
    IN [n \in 1..Len(accs) |-> CHOOSE r \in d.rows : r.accession = accs[n]]

\* a row re-indexed to the columns of a concatenation: NaN where it has none
Reindexed(r, columns) ==
    [c \in columns |-> IF c \in DOMAIN r THEN r[c] ELSE "NaN"]

RECURSIVE ConcatRows(_, _)
ConcatRows(dfs, columns) ==
    IF dfs = <<>> THEN <<>>
    ELSE LET rs == RowSeq(Head(dfs))
         IN [n \in 1..Len(rs) |-> Reindexed(rs[n], columns)]
            \o ConcatRows(Tail(dfs), columns)

\* pd.concat(dfs) for a non-empty list: the union of the columns, all rows
Concat(dfs) ==
    LET columns == UNION {dfs[n].columns : n \in DOMAIN dfs}
    IN [columns |-> columns, rows |-> ConcatRows(dfs, columns)]

\* DataFrame.drop_duplicates: the first of equal rows is kept
RECURSIVE DropDuplicates(_)
DropDuplicates(rows) ==
    IF rows = <<>> THEN <<>>
    ELSE LET init == DropDuplicates(SubSeq(rows, 1, Len(rows) - 1))
             last == rows[Len(rows)]
         IN IF \E n \in DOMAIN init : init[n] = last THEN init ELSE Append(init, last)

VARIABLES df, yaml_scheme, sampling_scheme, sampling_order, pc, vi, ki, si,
          sampled_dfs, used_data, executed, error, output

vars == <<df, yaml_scheme, sampling_scheme, sampling_order, pc, vi, ki, si,
          sampled_dfs, used_data, executed, error, output>>

NoOutput == [columns |-> {}, rows |-> <<>>, written |-> FALSE]

Init ==
    /\ df \in Tables
    /\ yaml_scheme \in Schemes
    /\ sampling_scheme = yaml_scheme
    /\ sampling_order = <<>>
    /\ pc = "expand"
    /\ vi = 1
    /\ ki = 1
    /\ si = 1
    /\ sampled_dfs = <<>>
    /\ used_data = <<>>
    /\ executed = <<>>
    /\ error = "none"
    /\ output = NoOutput

\* lines 79-83
Expand ==
    /\ pc = "expand"
    /\ sampling_scheme' = ExpandAll(sampling_scheme)
    /\ pc' = "validate"
    /\ UNCHANGED <<df, yaml_scheme, sampling_order, vi, ki, si, sampled_dfs,
                   used_data, executed, error, output>>

\* lines 85-102, one iteration of the loop over the scheme
ValidateRule ==
    /\ pc = "validate"
    /\ vi <= Len(sampling_scheme)
    /\ LET taxa == sampling_scheme[vi].key
       IN IF check_taxa_name(taxa, taxa_levels, df)
          THEN LET sampling_level == sampling_scheme[vi].sampling_level
                   n_taxa == sampling_scheme[vi].taxa
                   taxa_level_index == get_taxa_level_index(taxa, taxa_levels, df)
                   sampling_level_index == LevelIndex(sampling_level)
               IN IF RankOrderOk(sampling_level_index, taxa_level_index)
                  THEN /\ sampling_order' =
                            OrderAppend(sampling_order, taxa_level_index,
                                        [taxa |-> taxa, sampling_level |-> sampling_level,
                                         n_taxa |-> n_taxa])
                       /\ vi' = vi + 1
                       /\ UNCHANGED <<pc, error>>
                  ELSE /\ pc' = "exit"
                       /\ error' = "Can't sample from a higher taxonomic level"
                       /\ UNCHANGED <<sampling_order, vi>>
          ELSE /\ pc' = "exit"
               /\ error' = "is not present in GTDB"
               /\ UNCHANGED <<sampling_order, vi>>
    /\ UNCHANGED <<df, yaml_scheme, sampling_scheme, ki, si, sampled_dfs,
                   used_data, executed, output>>

\* lines 106-110, after the loop over the scheme
Reorder ==
    /\ pc = "validate"
    /\ vi > Len(sampling_scheme)
    /\ sampling_order' = Reordered(sampling_order)
    /\ sampled_dfs' = <<>>
    /\ used_data' = <<>>
    /\ pc' = "sample"
    /\ ki' = 1
    /\ si' = 1
    /\ UNCHANGED <<df, yaml_scheme, sampling_scheme, vi, executed, error, output>>

\* lines 113-160, one iteration of the inner loop: one rule
SampleRule ==
    /\ pc = "sample"
    /\ ki <= Len(sampling_order)
    /\ LET taxa_level_index == sampling_order[ki].key
           taxa_level == LevelAt(taxa_level_index)
           sampling == sampling_order[ki].rules[si]
           taxa == sampling.taxa
           sampling_level == sampling.sampling_level
           n_taxa == sampling.n_taxa
           exclude_entries == ExcludeEntries(used_data)
           pool == WhereNotIn(WhereEquals(df, taxa_level, taxa), exclude_entries)
           weighted == sampling_level # "species"
           base_level == LevelAt(LevelIndex(sampling_level) + 1)
           n_units == Cardinality(Column(pool, base_level))
       IN IF weighted /\ n_units = 0
          THEN \* line 135: 1 / 0
               /\ pc' = "crash"
               /\ error' = "ZeroDivisionError"
               /\ UNCHANGED <<ki, si, sampled_dfs, used_data, executed>>
          ELSE LET sampling_df == IF weighted THEN AssignWeights(pool, base_level)
                                  ELSE pool
               IN \E draws \in AllDraws(GroupBy(sampling_df, sampling_level), n_taxa) :
                    /\ sampled_dfs' = sampled_dfs \o
                                        [n \in DOMAIN draws |-> draws[n].sampled]
                    /\ used_data' = Append(used_data, sampling_df)
                    /\ executed' = Append(executed,
                          [taxa |-> taxa, taxa_level_index |-> taxa_level_index,
                           sampling_level |-> sampling_level, n_taxa |-> n_taxa,
                           exclude_entries |-> exclude_entries,
                           sampling_df |-> sampling_df, draws |-> draws])
                    /\ IF si < Len(sampling_order[ki].rules)
                       THEN si' = si + 1 /\ ki' = ki
                       ELSE si' = 1 /\ ki' = ki + 1
                    /\ UNCHANGED <<pc, error>>
    /\ UNCHANGED <<df, yaml_scheme, sampling_scheme, sampling_order, vi, output>>

\* lines 162-164, after the last rule
WriteOutput ==
    /\ pc = "sample"
    /\ ki > Len(sampling_order)
    /\ IF sampled_dfs = <<>>
       THEN \* pd.concat of an empty list
            /\ pc' = "crash"
            /\ error' = "ValueError"
            /\ UNCHANGED output
       ELSE /\ output' = [columns |-> Concat(sampled_dfs).columns,
                          rows |-> DropDuplicates(Concat(sampled_dfs).rows),
                          written |-> TRUE]
            /\ pc' = "done"
            /\ UNCHANGED error
    /\ UNCHANGED <<df, yaml_scheme, sampling_scheme, sampling_order, vi, ki, si,
                   sampled_dfs, used_data, executed>>

Next == Expand \/ ValidateRule \/ Reorder \/ SampleRule \/ WriteOutput

Spec == Init /\ [][Next]_vars

\* ------------------------------------------------- vocabulary of the claims
Min(a, b) == IF a <= b THEN a ELSE b

\* the 0-based indices of the rank columns of df that hold the name
RanksWith(name) ==
    {n \in 0..(Len(taxa_levels) - 1) : \E r \in df.rows : r[LevelAt(n)] = name}

CoarsestRankWith(name) == CHOOSE n \in RanksWith(name) : \A m \in RanksWith(name) : n <= m
FinestRankWith(name) == CHOOSE n \in RanksWith(name) : \A m \in RanksWith(name) : m <= n

UnknownRule(n) == RanksWith(sampling_scheme[n].key) = {}

\* the target rank of rule n is strictly coarser than the rank of its taxon
CoarserTarget(n) ==
    /\ ~UnknownRule(n)
    /\ LevelIndex(sampling_scheme[n].sampling_level)
         < CoarsestRankWith(sampling_scheme[n].key)

\* the target rank of rule n is strictly finer than some rank of its taxon
FinerTarget(n) ==
    \E k \in RanksWith(sampling_scheme[n].key) :
        LevelIndex(sampling_scheme[n].sampling_level) > k

PosInScheme(taxa) == CHOOSE n \in DOMAIN sampling_scheme : sampling_scheme[n].key = taxa

\* the pairs <<bucket key, rule>> of sampling_order
BucketedRules ==
    UNION { { <<sampling_order[n].key, sampling_order[n].rules[m]>> :
                m \in DOMAIN sampling_order[n].rules } : n \in DOMAIN sampling_order }

FracEq(x, y) == x[1] * y[2] = y[1] * x[2]

RECURSIVE ProbSum(_)
ProbSum(rows) ==
    IF rows = {} THEN <<0, 1>>
    ELSE LET r == CHOOSE x \in rows : TRUE
             rest == ProbSum(rows \ {r})
         IN <<r["sampling_prob"][1] * rest[2] + rest[1] * r["sampling_prob"][2],
              r["sampling_prob"][2] * rest[2]>>

\* the rows of df a rule names, at a given rank, without the excluded ones
MatchingAccessions(taxa, rank, excluded) ==
    {r.accession : r \in {x \in df.rows : x[LevelAt(rank)] = taxa}} \ excluded

\* ------------------------------------------------------------------ C1
\* C1: for every executed rule the draws cover exactly the groups of the
\* candidate pool by the target rank, and from every group min(quota, size)
\* distinct rows of that group are selected, weighted or not; these selections
\* are what sampled_dfs holds.
C1_QuotaPerGroup ==
    /\ \A n \in DOMAIN executed :
         LET e == executed[n]
             keys == Column(e.sampling_df, e.sampling_level)
         IN /\ Len(e.draws) = Cardinality(keys)
            /\ {e.draws[m].group.rows : m \in DOMAIN e.draws}
                 = { {r \in e.sampling_df.rows : r[e.sampling_level] = k} : k \in keys }
            /\ \A m \in DOMAIN e.draws :
                 LET g == e.draws[m].group.rows
                     sel == e.draws[m].sampled.rows
                 IN /\ sel \subseteq g
                    /\ Cardinality(sel) <= e.n_taxa
                    /\ Cardinality(sel) = Min(e.n_taxa, Cardinality(g))
    /\ {sampled_dfs[n] : n \in DOMAIN sampled_dfs}
         = UNION { {executed[n].draws[m].sampled : m \in DOMAIN executed[n].draws}
                     : n \in DOMAIN executed }

\* a weighted rule drew from a group larger than its positive quota
C1_Witness ==
    \E n \in DOMAIN executed : \E m \in DOMAIN executed[n].draws :
        /\ executed[n].sampling_level # "species"
        /\ executed[n].n_taxa >= 1
        /\ Cardinality(executed[n].draws[m].group.rows) > executed[n].n_taxa
        /\ Cardinality(executed[n].draws[m].sampled.rows) = executed[n].n_taxa

\* ------------------------------------------------------------------ C2
\* C2, as stated: every accepted rule has a target rank that is the same as or
\* coarser than the rank it is bucketed under, and a rank-order exit happens
\* at a rule whose target rank is finer than its taxon's rank.
C2_FinerTargetAborts ==
    /\ \A b \in BucketedRules : LevelIndex(b[2].sampling_level) <= b[1]
    /\ (pc = "exit" /\ error = "Can't sample from a higher taxonomic level")
         => FinerTarget(vi)

\* C2, amended: every rule the validation loop has passed names a known taxon,
\* is bucketed under the rank of its taxon and has a target rank that is the
\* same as or finer than that rank; the run exits with the rank-order message
\* exactly at a rule with a known taxon whose target rank is strictly coarser
\* than the rank of its taxon.
C2_CoarserTargetAborts ==
    /\ pc \in {"validate", "exit"} =>
         \A n \in 1..(vi - 1) :
            /\ ~UnknownRule(n)
            /\ ~CoarserTarget(n)
            /\ <<CoarsestRankWith(sampling_scheme[n].key),
                 [taxa |-> sampling_scheme[n].key,
                  sampling_level |-> sampling_scheme[n].sampling_level,
                  n_taxa |-> sampling_scheme[n].taxa]>> \in BucketedRules
    /\ \A b \in BucketedRules :
         /\ b[1] \in RanksWith(b[2].taxa)
         /\ LevelIndex(b[2].sampling_level) >= b[1]
    /\ pc = "exit" =>
         (error = "Can't sample from a higher taxonomic level" <=> CoarserTarget(vi))

\* the run exited at a rule with a known taxon and a coarser target rank, after
\* accepting a rule whose target rank is strictly finer than its taxon's rank
C2_Witness ==
    /\ pc = "exit"
    /\ error = "Can't sample from a higher taxonomic level"
    /\ CoarserTarget(vi)
    /\ \E b \in BucketedRules : LevelIndex(b[2].sampling_level) > b[1]

\* ------------------------------------------------------------------ C3
AbortedClean ==
    /\ used_data = <<>>
    /\ sampled_dfs = <<>>
    /\ executed = <<>>
    /\ output = NoOutput

\* C3, as stated: with a rule of unknown taxon in the expanded scheme the run
\* never gets past validation and its exit is the unknown-taxon exit; at either
\* exit nothing was sampled, the used pool is empty and no output is written.
C3_UnknownTaxonAborts ==
    /\ (pc # "expand" /\ \E n \in DOMAIN sampling_scheme : UnknownRule(n))
         => /\ pc \in {"validate", "exit"}
            /\ pc = "validate" => vi <= Len(sampling_scheme)
            /\ pc = "exit" => error = "is not present in GTDB"
    /\ pc = "exit" => AbortedClean

\* C3, amended: with a rule of unknown taxon in the expanded scheme the run
\* never gets past validation; it exits at the first rule in scheme order that
\* is unknown or has a target rank coarser than its taxon's rank, with the
\* unknown-taxon message if that rule is unknown and with the rank-order
\* message otherwise; at either exit nothing was sampled, the used pool is
\* empty and no output is written.
C3_FirstOffenderAborts ==
    /\ (pc # "expand" /\ \E n \in DOMAIN sampling_scheme : UnknownRule(n))
         => /\ pc \in {"validate", "exit"}
            /\ pc = "validate" => vi <= Len(sampling_scheme)
    /\ pc \in {"validate", "exit"} =>
         \A n \in 1..(vi - 1) : ~UnknownRule(n) /\ ~CoarserTarget(n)
    /\ pc = "exit" =>
         /\ vi \in DOMAIN sampling_scheme
         /\ UnknownRule(vi) \/ CoarserTarget(vi)
         /\ error = "is not present in GTDB" <=> UnknownRule(vi)
         /\ error = "Can't sample from a higher taxonomic level" <=> ~UnknownRule(vi)
         /\ AbortedClean

\* the run exited because the table has no Archaea for the rule the wildcard made
C3_Witness ==
    /\ pc = "exit"
    /\ error = "is not present in GTDB"
    /\ HasKey(yaml_scheme, "all")
    /\ sampling_scheme[vi].key = "Archaea"
    /\ UnknownRule(vi)
    /\ AbortedClean

\* ------------------------------------------------------------------ C4
PoolAccessions(n) == Accessions(executed[n].sampling_df)

SelectedAccessions(n) ==
    UNION {Accessions(executed[n].draws[m].sampled) : m \in DOMAIN executed[n].draws}

C4_PoolsOfExecuted ==
    /\ Len(used_data) = Len(executed)
    /\ ExcludeEntries(used_data) = UNION {PoolAccessions(n) : n \in DOMAIN executed}
    /\ \A n \in DOMAIN executed :
         /\ Accessions(used_data[n]) = PoolAccessions(n)
         /\ executed[n].exclude_entries = UNION {PoolAccessions(m) : m \in 1..(n - 1)}
         /\ PoolAccessions(n) \cap executed[n].exclude_entries = {}
         /\ PoolAccessions(n) =
              MatchingAccessions(executed[n].taxa, executed[n].taxa_level_index,
                                 executed[n].exclude_entries)
    /\ \A a, b \in DOMAIN executed :
         a # b => PoolAccessions(a) \cap PoolAccessions(b) = {}

\* C4: used_data holds one frame per executed rule, the used pool is the union
\* of the candidate pools of the executed rules, each rule's exclusion set is
\* the union of the pools of the rules before it, its pool is the matching rows
\* minus that set, the pools are pairwise disjoint, and no step takes an
\* accession out of the used pool.
C4_PoolsDisjoint ==
    /\ []C4_PoolsOfExecuted
    /\ [][ExcludeEntries(used_data) \subseteq ExcludeEntries(used_data')]_vars

\* a row that an earlier rule had in its pool but did not select matches a
\* later rule and is not in that rule's pool
C4_Witness ==
    \E a, b \in DOMAIN executed :
        /\ a < b
        /\ \E r \in df.rows :
             /\ r.accession \in PoolAccessions(a) \ SelectedAccessions(a)
             /\ r[LevelAt(executed[b].taxa_level_index)] = executed[b].taxa
             /\ r.accession \notin PoolAccessions(b)

\* ------------------------------------------------------------------ C5
\* C5: no rule makes the run fail: the run does not stop inside the rule loop
\* (an empty candidate pool, a zero quota or a pool without child units gives
\* an empty selection and the next rule runs).
C5_NoRuleFails ==
    pc = "crash" => ki > Len(sampling_order)

\* ------------------------------------------------------------------ C6
ParamsOf(scheme, key) ==
    [sampling_level |-> DictGet(scheme, key).sampling_level,
     taxa |-> DictGet(scheme, key).taxa]

Keys(scheme) == {scheme[n].key : n \in DOMAIN scheme}

\* C6, as stated: after the expansion of a scheme with "all", "all" is gone,
\* Bacteria and Archaea carry the wildcard's parameters, and every other rule
\* of the input is there with its own parameters.
C6_OthersUnchanged ==
    (pc # "expand" /\ HasKey(yaml_scheme, "all")) =>
        /\ ~HasKey(sampling_scheme, "all")
        /\ \A k \in {"Bacteria", "Archaea"} :
             /\ HasKey(sampling_scheme, k)
             /\ ParamsOf(sampling_scheme, k) = ParamsOf(yaml_scheme, "all")
        /\ \A k \in Keys(yaml_scheme) \ {"all"} :
             /\ HasKey(sampling_scheme, k)
             /\ ParamsOf(sampling_scheme, k) = ParamsOf(yaml_scheme, k)

\* C6, amended: after the expansion of a scheme with "all", "all" is gone, the
\* keys are those of the input other than "all" plus Bacteria and Archaea, each
\* once; Bacteria and Archaea carry the wildcard's parameters (an explicit
\* Bacteria or Archaea rule of the input is overwritten by them), and every
\* rule of the input with another key has its own parameters.  A scheme
\* without "all" is left as it is.
C6_OthersUnchangedButDomains ==
    pc # "expand" =>
        IF HasKey(yaml_scheme, "all")
        THEN /\ Keys(sampling_scheme)
                  = (Keys(yaml_scheme) \ {"all"}) \cup {"Bacteria", "Archaea"}
             /\ Len(sampling_scheme) = Cardinality(Keys(sampling_scheme))
             /\ \A k \in {"Bacteria", "Archaea"} :
                  ParamsOf(sampling_scheme, k) = ParamsOf(yaml_scheme, "all")
             /\ \A k \in Keys(yaml_scheme) \ {"all", "Bacteria", "Archaea"} :
                  ParamsOf(sampling_scheme, k) = ParamsOf(yaml_scheme, k)
        ELSE sampling_scheme = yaml_scheme

\* a scheme with "all" and an explicit Bacteria rule of other parameters was expanded
C6_Witness ==
    /\ pc = "validate"
    /\ HasKey(yaml_scheme, "all")
    /\ HasKey(yaml_scheme, "Bacteria")
    /\ ParamsOf(yaml_scheme, "Bacteria") # ParamsOf(yaml_scheme, "all")
    /\ ParamsOf(sampling_scheme, "Bacteria") = ParamsOf(yaml_scheme, "all")

\* ------------------------------------------------------------------ C7
\* C7: the output table has exactly the columns of the filtered input table.
C7_OutputColumns ==
    output.written => output.columns = df.columns

\* ------------------------------------------------------------------ C8
\* C8: the rules are executed one after the other in order of the rank of
\* their taxon, finest first, rules of one rank in scheme order; the pool of an
\* earlier rule is in the used pool when the pool of a later rule is computed;
\* a run that ends has executed every rule of the scheme once.
C8_FinestFirst ==
    /\ \A n \in DOMAIN executed :
         /\ HasKey(sampling_scheme, executed[n].taxa)
         /\ executed[n].taxa_level_index \in RanksWith(executed[n].taxa)
    /\ \A a, b \in DOMAIN executed :
         a < b =>
            /\ executed[a].taxa_level_index >= executed[b].taxa_level_index
            /\ executed[a].taxa_level_index = executed[b].taxa_level_index
                 => PosInScheme(executed[a].taxa) < PosInScheme(executed[b].taxa)
            /\ PoolAccessions(a) \subseteq executed[b].exclude_entries
    /\ pc = "done" =>
         /\ Len(executed) = Len(sampling_scheme)
         /\ {executed[n].taxa : n \in DOMAIN executed} = Keys(sampling_scheme)

\* a run ended in which a rule of a finer rank ran before a rule that comes
\* first in the scheme
C8_Witness ==
    /\ pc = "done"
    /\ \E a, b \in DOMAIN executed :
         /\ a < b
         /\ executed[a].taxa_level_index > executed[b].taxa_level_index
         /\ PosInScheme(executed[a].taxa) > PosInScheme(executed[b].taxa)

\* ------------------------------------------------------------------ C9
\* C9: in the pool of an executed rule whose target rank is not species every
\* record of a child unit of k records has sampling_prob 1/(n_units*k), the
\* weights of a unit sum to 1/n_units and those of the pool to 1; the pool and
\* the selections of a rule whose target rank is species have no sampling_prob.
C9_Weights ==
    \A n \in DOMAIN executed :
        LET e == executed[n]
            rows == e.sampling_df.rows
        IN IF e.sampling_level = "species"
           THEN /\ "sampling_prob" \notin e.sampling_df.columns
                /\ \A r \in rows : "sampling_prob" \notin DOMAIN r
                /\ \A m \in DOMAIN e.draws :
                     "sampling_prob" \notin e.draws[m].sampled.columns
           ELSE LET child == LevelAt(LevelIndex(e.sampling_level) + 1)
                    units == {r[child] : r \in rows}
                    n_units == Cardinality(units)
                IN /\ rows # {}
                   /\ "sampling_prob" \in e.sampling_df.columns
                   /\ \A u \in units :
                        LET unit == {r \in rows : r[child] = u}
                            k == Cardinality(unit)
                        IN /\ \A r \in unit :
                                FracEq(r["sampling_prob"], <<1, n_units * k>>)
                           /\ FracEq(ProbSum(unit), <<1, n_units>>)
                   /\ FracEq(ProbSum(rows), <<1, 1>>)

\* a weighted pool with two child units of different sizes
C9_Witness ==
    \E n \in DOMAIN executed :
        /\ executed[n].sampling_level # "species"
        /\ LET child == LevelAt(LevelIndex(executed[n].sampling_level) + 1)
               rows == executed[n].sampling_df.rows
           IN \E r1, r2 \in rows :
                /\ r1[child] # r2[child]
                /\ Cardinality({r \in rows : r[child] = r1[child]})
                     # Cardinality({r \in rows : r[child] = r2[child]})

\* ------------------------------------------------------------------ C10
\* C10, as stated: a rule is bucketed under the finest rank whose column holds
\* its taxon name.
C10_FinestMatch ==
    \A b \in BucketedRules : b[1] = FinestRankWith(b[2].taxa)

\* C10, amended: a rule is bucketed under the first match when the rank columns
\* are scanned from coarsest (domain) to finest (species), that is the coarsest
\* rank whose column holds its taxon name, and its candidate pool is built at
\* that rank.
C10_CoarsestMatch ==
    /\ \A b \in BucketedRules : b[1] = CoarsestRankWith(b[2].taxa)
    /\ \A n \in DOMAIN executed :
         /\ executed[n].taxa_level_index = CoarsestRankWith(executed[n].taxa)
         /\ PoolAccessions(n) =
              MatchingAccessions(executed[n].taxa, CoarsestRankWith(executed[n].taxa),
                                 executed[n].exclude_entries)

\* a rule whose name is a genus and a species was executed
C10_Witness ==
    \E n \in DOMAIN executed :
        /\ Cardinality(RanksWith(executed[n].taxa)) >= 2
        /\ executed[n].taxa_level_index = LevelIndex("genus")
        /\ LevelIndex("species") \in RanksWith(executed[n].taxa)
====
